---- MODULE Spec2Model ----
(***************************************************************************)
(* Model of the generate-notebook-content edge function                    *)
(* (src/supabase/functions/generate-notebook-content/index.ts).            *)
(*                                                                         *)
(* One request is one process p.  Every `await` of the handler is one      *)
(* action; the synchronous code that follows an await up to the next one   *)
(* belongs to the same action.  The store (tables notebooks and sources)   *)
(* is shared by all processes.                                             *)
(*                                                                         *)
(* JavaScript values are strings; UNDEF and NULL stand for undefined and   *)
(* null; a JSON array is the string of its JSON text.                      *)
(***************************************************************************)
EXTENDS Integers, Sequences, FiniteSets, TLC

VARIABLES notebooks, sources, pc, body, bodyUsed, req, env, payload,
          generatedData, locals, response, trace, sent

vars == <<notebooks, sources, pc, body, bodyUsed, req, env, payload,
          generatedData, locals, response, trace, sent>>

-----------------------------------------------------------------------------
(* Bounds of the model *)

NumProcs == 2
MaxSources == 2

Procs == 1..NumProcs

-----------------------------------------------------------------------------
(* JavaScript values *)

UNDEF == "<undefined>"
NULL == "<null>"

\* !v of JavaScript, for the strings and absent values the handler tests
Falsy(v) == v = UNDEF \/ v = NULL \/ v = ""

\* a || b
Or(a, b) == IF Falsy(a) THEN b ELSE a

\* list || [] (an array, even an empty one, is truthy)
EmptyList == "[]"
OrEmptyList(l) == Or(l, EmptyList)

DefaultIcon == "U+1F4DD"
DefaultColor == "gray"

-----------------------------------------------------------------------------
(* The store *)

NotebookIds == {"n1", "n2"}

OldNotebook ==
  [generation_status |-> "pending", title |-> "Old", description |-> "old d",
   icon |-> "old i", color |-> "old c", example_questions |-> "[old q]"]

NullRow ==
  [notebook_id |-> NULL, type |-> NULL, content |-> NULL, url |-> NULL,
   title |-> NULL]

RowPool ==
  { [notebook_id |-> "n1", type |-> "text", content |-> "c1", url |-> NULL, title |-> "t1"],
    [notebook_id |-> "n1", type |-> "text", content |-> "c2", url |-> NULL, title |-> NULL],
    [notebook_id |-> "n1", type |-> "text", content |-> "", url |-> NULL, title |-> "t3"],
    [notebook_id |-> "n2", type |-> "text", content |-> "c4", url |-> NULL, title |-> "t4"],
    [notebook_id |-> "n1", type |-> "website", content |-> NULL, url |-> "u1", title |-> "t5"],
    [notebook_id |-> "n1", type |-> "website", content |-> "c6", url |-> "", title |-> "t6"] }

\* the sources table in creation order: created_at grows with the index
SourceTables ==
  UNION { { s \in [1..n -> RowPool] : \A i, j \in 1..n : i # j => s[i] # s[j] }
          : n \in 0..MaxSources }

Max(S) == CHOOSE m \in S : \A x \in S : x <= m
Min(S) == CHOOSE m \in S : \A x \in S : m <= x

\* QuerySource ordered by created_at ascending: the oldest matching row
QuerySourceOldest(id, type, storeOk) ==
  LET idx == { i \in DOMAIN sources :
                 sources[i].notebook_id = id /\ sources[i].type = type }
  IN IF storeOk /\ idx # {}
       THEN [error |-> FALSE, data |-> sources[Min(idx)]]
       ELSE [error |-> TRUE, data |-> NullRow]

\* from('sources').select().eq('notebook_id', id).eq('type', type)
\*   .order('created_at', {ascending: false}).limit(1).single()
\* storeOk = FALSE: the store fails the query.  No matching row is an error of
\* .single() too.
QuerySource(id, type, storeOk) ==
  LET idx == { i \in DOMAIN sources :
                 sources[i].notebook_id = id /\ sources[i].type = type }
  IN IF storeOk /\ idx # {}
       THEN [error |-> FALSE, data |-> sources[Max(idx)]]
       ELSE [error |-> TRUE, data |-> NullRow]

\* UpdateStatus without the filter on the id: every notebook gets the status
UpdateStatusAllRows(nb, id, status) ==
  [n \in DOMAIN nb |-> [nb[n] EXCEPT !.generation_status = status]]

\* from('notebooks').update({generation_status: status}).eq('id', id)
UpdateStatus(nb, id, status) ==
  IF id \in DOMAIN nb THEN [nb EXCEPT ![id].generation_status = status] ELSE nb

\* UpdateContent that only fills a notebook still marked `generating`
UpdateContentIfGenerating(nb, id, fields) ==
  IF id \in DOMAIN nb /\ nb[id].generation_status = "generating"
    THEN [nb EXCEPT ![id] = fields]
    ELSE nb

\* from('notebooks').update({title, description, icon, color,
\*   example_questions, generation_status}).eq('id', id)
UpdateContent(nb, id, fields) ==
  IF id \in DOMAIN nb THEN [nb EXCEPT ![id] = fields] ELSE nb

-----------------------------------------------------------------------------
(* Requests, environment, responses *)

NoBody == [valid |-> FALSE, notebookId |-> UNDEF, filePath |-> UNDEF, sourceType |-> UNDEF]

Bodies ==
  [valid : {TRUE}, notebookId : {UNDEF, "", "n1", "n2"}, filePath : {UNDEF, "f1"},
   sourceType : {UNDEF, "text", "website", "pdf"}]
  \cup {NoBody}

NoReq == [notebookId |-> UNDEF, filePath |-> UNDEF, sourceType |-> UNDEF]

Envs == [url : {UNDEF, "https://gen"}, auth : {UNDEF, "token"}]

NoEnv == [url |-> UNDEF, auth |-> UNDEF]

NoPayload == [sourceType |-> UNDEF, content |-> UNDEF, title |-> UNDEF, filePath |-> UNDEF]

NoFields ==
  [title |-> UNDEF, summary |-> UNDEF, notebook_icon |-> UNDEF,
   background_color |-> UNDEF, example_questions |-> UNDEF]

FieldsSet ==
  [title : {UNDEF, "", "T"}, summary : {UNDEF, "S"}, notebook_icon : {UNDEF, "I"},
   background_color : {UNDEF, "blue"}, example_questions : {UNDEF, "[q1]"}]

\* generatedData: hasOutput says that generatedData.output is truthy; top holds
\* the top-level fields.  NoData is {} (or null).
NoData == [hasOutput |-> FALSE, output |-> NoFields, top |-> NoFields]

TopOnly == [NoFields EXCEPT !.title = "T2", !.summary = "S2"]

GenDataSet ==
  { [hasOutput |-> FALSE, output |-> NoFields, top |-> f] : f \in FieldsSet }
  \cup { [hasOutput |-> TRUE, output |-> f, top |-> NoFields] : f \in FieldsSet }
  \cup { [hasOutput |-> TRUE, output |-> [NoFields EXCEPT !.title = t], top |-> TopOnly]
         : t \in {UNDEF, "", "T"} }

NoLocals ==
  [title |-> UNDEF, description |-> UNDEF, notebookIcon |-> UNDEF,
   backgroundColor |-> UNDEF, exampleQuestions |-> UNDEF]

NoResponse ==
  [status |-> 0, error |-> UNDEF, success |-> FALSE, title |-> UNDEF,
   description |-> UNDEF, icon |-> UNDEF, color |-> UNDEF, exampleQuestions |-> UNDEF]

\* new Response(JSON.stringify({error: msg}), {status: st})
ErrorResponse(st, msg) == [NoResponse EXCEPT !.status = st, !.error = msg]

-----------------------------------------------------------------------------
(* History: what each request did at the store and at the external service  *)

WriteEvent(id, status, ok) == [op |-> "write", id |-> id, status |-> status, ok |-> ok]
\* a query of the sources table: ok = FALSE when the store failed it
QueryEvent(id, type, ok) == [op |-> "query", id |-> id, status |-> type, ok |-> ok]
\* the POST to the generation service and how it ended: "respOk" (2xx),
\* "notOk" (another status) or "catch" (the call threw)
CallEvent(outcome) ==
  [op |-> "call", id |-> UNDEF, status |-> outcome, ok |-> outcome = "respOk"]
\* response.json() of the 2xx response: ok = FALSE when it threw
JsonEvent(ok) == [op |-> "json", id |-> UNDEF, status |-> UNDEF, ok |-> ok]

-----------------------------------------------------------------------------
Init ==
  /\ notebooks = [n \in NotebookIds |-> OldNotebook]
  /\ sources \in SourceTables
  /\ pc = [p \in Procs |-> "idle"]
  /\ body = [p \in Procs |-> NoBody]
  /\ bodyUsed = [p \in Procs |-> FALSE]
  /\ req = [p \in Procs |-> NoReq]
  /\ env = [p \in Procs |-> NoEnv]
  /\ payload = [p \in Procs |-> NoPayload]
  /\ generatedData = [p \in Procs |-> NoData]
  /\ locals = [p \in Procs |-> NoLocals]
  /\ response = [p \in Procs |-> NoResponse]
  /\ trace = [p \in Procs |-> <<>>]
  /\ sent = [p \in Procs |-> <<>>]

-----------------------------------------------------------------------------
(* Pieces of the handler *)

\* await req.json(): a Request body is a one-shot stream.  The read fails when
\* the body was already read (bodyUsed) or is not JSON.
ReqJson(used, b) ==
  IF used \/ ~b.valid
    THEN [threw |-> TRUE, value |-> NoBody]
    ELSE [threw |-> FALSE, value |-> b]

\* Admission with the configuration check placed before the validation
AdmissionConfigFirst(r, e) ==
  IF Falsy(e.url) \/ Falsy(e.auth)
    THEN ErrorResponse(500, "Web service configuration missing")
    ELSE IF Falsy(r.notebookId) \/ Falsy(r.sourceType)
      THEN ErrorResponse(400, "notebookId and sourceType are required")
      ELSE NoResponse

\* Admission with a configuration check that forgets the auth token
AdmissionUrlOnly(r, e) ==
  IF Falsy(r.notebookId) \/ Falsy(r.sourceType)
    THEN ErrorResponse(400, "notebookId and sourceType are required")
    ELSE IF Falsy(e.url)
      THEN ErrorResponse(500, "Web service configuration missing")
      ELSE NoResponse

\* lines 17-40: validation first, then the configuration check; the result is
\* the response returned at once, or NoResponse when the request goes on
Admission(r, e) ==
  IF Falsy(r.notebookId) \/ Falsy(r.sourceType)
    THEN ErrorResponse(400, "notebookId and sourceType are required")
    ELSE IF Falsy(e.url) \/ Falsy(e.auth)
      THEN ErrorResponse(500, "Web service configuration missing")
      ELSE NoResponse

\* Reconcile whose flattened branch forgets the summary
ReconcileFlatNoSummary(g) ==
  IF g.hasOutput
    THEN [valid |-> TRUE,
          locals |-> [title |-> g.output.title,
                      description |-> g.output.summary,
                      notebookIcon |-> g.output.notebook_icon,
                      backgroundColor |-> g.output.background_color,
                      exampleQuestions |-> OrEmptyList(g.output.example_questions)]]
    ELSE IF ~Falsy(g.top.title)
      THEN [valid |-> TRUE,
            locals |-> [title |-> g.top.title,
                        description |-> UNDEF,
                        notebookIcon |-> g.top.notebook_icon,
                        backgroundColor |-> g.top.background_color,
                        exampleQuestions |-> OrEmptyList(g.top.example_questions)]]
      ELSE [valid |-> FALSE, locals |-> NoLocals]

\* Reconcile that looks for a top-level title before `output`
ReconcileTitleFirst(g) ==
  IF ~Falsy(g.top.title)
    THEN [valid |-> TRUE,
          locals |-> [title |-> g.top.title,
                      description |-> g.top.summary,
                      notebookIcon |-> g.top.notebook_icon,
                      backgroundColor |-> g.top.background_color,
                      exampleQuestions |-> OrEmptyList(g.top.example_questions)]]
    ELSE IF g.hasOutput
      THEN [valid |-> TRUE,
            locals |-> [title |-> g.output.title,
                        description |-> g.output.summary,
                        notebookIcon |-> g.output.notebook_icon,
                        backgroundColor |-> g.output.background_color,
                        exampleQuestions |-> OrEmptyList(g.output.example_questions)]]
      ELSE [valid |-> FALSE, locals |-> NoLocals]

\* lines 165-193: shape detection, `output` first, then a top-level title
Reconcile(g) ==
  IF g.hasOutput
    THEN [valid |-> TRUE,
          locals |-> [title |-> g.output.title,
                      description |-> g.output.summary,
                      notebookIcon |-> g.output.notebook_icon,
                      backgroundColor |-> g.output.background_color,
                      exampleQuestions |-> OrEmptyList(g.output.example_questions)]]
    ELSE IF ~Falsy(g.top.title)
      THEN [valid |-> TRUE,
            locals |-> [title |-> g.top.title,
                        description |-> g.top.summary,
                        notebookIcon |-> g.top.notebook_icon,
                        backgroundColor |-> g.top.background_color,
                        exampleQuestions |-> OrEmptyList(g.top.example_questions)]]
      ELSE [valid |-> FALSE, locals |-> NoLocals]

\* AfterReconcile with a title check that only catches an absent title
AfterReconcileAbsentOnly(r) ==
  IF ~r.valid THEN "failFormat"
  ELSE IF r.locals.title = UNDEF THEN "failTitle"
  ELSE "apply"

\* lines 181-207: where the handler goes after shape detection
AfterReconcile(r) ==
  IF ~r.valid THEN "failFormat"
  ELSE IF Falsy(r.locals.title) THEN "failTitle"
  ELSE "apply"

\* PersistedFields without the defaults of icon and color
PersistedFieldsNoDefaults(l) ==
  [title |-> l.title,
   description |-> Or(l.description, NULL),
   icon |-> l.notebookIcon,
   color |-> l.backgroundColor,
   example_questions |-> OrEmptyList(l.exampleQuestions),
   generation_status |-> "completed"]

\* lines 212-219: the row written on success
PersistedFields(l) ==
  [title |-> l.title,
   description |-> Or(l.description, NULL),
   icon |-> Or(l.notebookIcon, DefaultIcon),
   color |-> Or(l.backgroundColor, DefaultColor),
   example_questions |-> OrEmptyList(l.exampleQuestions),
   generation_status |-> "completed"]

\* lines 232-243: the body of the 200 response
SuccessResponse(l) ==
  [status |-> 200, error |-> UNDEF, success |-> TRUE, title |-> l.title,
   description |-> l.description, icon |-> l.notebookIcon,
   color |-> l.backgroundColor, exampleQuestions |-> l.exampleQuestions]

\* ContentWrite that forces `failed` when the store rejects the content
ContentWriteFailedOnError(nb, id, l, ok) ==
  IF ok THEN UpdateContent(nb, id, PersistedFields(l)) ELSE UpdateStatus(nb, id, "failed")

\* lines 210-220: the store after the content write; ok = FALSE when the store
\* rejects it (notebookError)
ContentWrite(nb, id, l, ok) ==
  IF ok THEN UpdateContent(nb, id, PersistedFields(l)) ELSE nb

\* ApplyResponse that does not look at notebookError
ApplyResponseIgnoringError(l, ok) == SuccessResponse(l)

\* lines 222-243: the response after the content write
ApplyResponse(l, ok) ==
  IF ~ok THEN ErrorResponse(500, "Failed to update notebook") ELSE SuccessResponse(l)

\* FailWith that answers the error without the `failed` write
FailWithoutWrite(p, msg) ==
  /\ response' = [response EXCEPT ![p] = ErrorResponse(500, msg)]
  /\ pc' = [pc EXCEPT ![p] = "done"]
  /\ UNCHANGED <<notebooks, sources, body, bodyUsed, req, env, payload, generatedData,
                 locals, trace, sent>>

\* await update({generation_status: 'failed'}).eq('id', notebookId), then
\* return the 500 response with msg.  The result of the update is not read.
FailWith(p, msg) ==
  /\ \E ok \in BOOLEAN :
       /\ notebooks' = IF ok THEN UpdateStatus(notebooks, req[p].notebookId, "failed")
                             ELSE notebooks
       /\ trace' = [trace EXCEPT ![p] = Append(@, WriteEvent(req[p].notebookId, "failed", ok))]
  /\ response' = [response EXCEPT ![p] = ErrorResponse(500, msg)]
  /\ pc' = [pc EXCEPT ![p] = "done"]
  /\ UNCHANGED <<sources, body, bodyUsed, req, env, payload, generatedData, locals, sent>>

-----------------------------------------------------------------------------
(* Actions: one per await of the handler *)

\* lines 14-40: read the body, validate, read the configuration
Receive(p) ==
  /\ pc[p] = "idle"
  /\ \E b \in Bodies, e \in Envs :
       LET r == ReqJson(bodyUsed[p], b) IN
       /\ body' = [body EXCEPT ![p] = b]
       /\ bodyUsed' = [bodyUsed EXCEPT ![p] = TRUE]
       /\ env' = [env EXCEPT ![p] = e]
       /\ IF r.threw
            THEN /\ pc' = [pc EXCEPT ![p] = "catch"]
                 /\ UNCHANGED <<req, response>>
            ELSE /\ req' = [req EXCEPT ![p] = [notebookId |-> r.value.notebookId,
                                               filePath |-> r.value.filePath,
                                               sourceType |-> r.value.sourceType]]
                 /\ response' = [response EXCEPT ![p] = Admission(r.value, e)]
                 /\ pc' = [pc EXCEPT ![p] =
                             IF Admission(r.value, e) = NoResponse
                               THEN "setGenerating" ELSE "done"]
  /\ UNCHANGED <<notebooks, sources, payload, generatedData, locals, trace, sent>>

\* a request handled in isolation: no other request is or was in flight
ReceiveAlone(p) ==
  /\ \A q \in Procs : pc[q] = "idle"
  /\ Receive(p)

\* SetGenerating that starts the payload without the `generating` write
SetGeneratingSkipped(p) ==
  /\ pc[p] = "setGenerating"
  /\ payload' = [payload EXCEPT ![p] = [NoPayload EXCEPT !.sourceType = req[p].sourceType]]
  /\ pc' = [pc EXCEPT ![p] = "resolve"]
  /\ UNCHANGED <<notebooks, sources, body, bodyUsed, req, env, generatedData, locals,
                 response, trace, sent>>

\* lines 48-59: the `generating` write, then the payload is started
SetGenerating(p) ==
  /\ pc[p] = "setGenerating"
  /\ \E ok \in BOOLEAN :
       /\ notebooks' = IF ok THEN UpdateStatus(notebooks, req[p].notebookId, "generating")
                             ELSE notebooks
       /\ trace' = [trace EXCEPT ![p] =
                      Append(@, WriteEvent(req[p].notebookId, "generating", ok))]
  /\ payload' = [payload EXCEPT ![p] = [NoPayload EXCEPT !.sourceType = req[p].sourceType]]
  /\ pc' = [pc EXCEPT ![p] = "resolve"]
  /\ UNCHANGED <<sources, body, bodyUsed, req, env, generatedData, locals, response, sent>>

\* lines 61-87: the text branch up to its check
ResolveText(p) ==
  /\ pc[p] = "resolve"
  /\ req[p].sourceType = "text"
  /\ \E ok \in BOOLEAN :
       LET q == QuerySource(req[p].notebookId, "text", ok) IN
       /\ trace' = [trace EXCEPT ![p] = Append(@, QueryEvent(req[p].notebookId, "text", ok))]
       /\ IF q.error \/ Falsy(q.data.content)
            THEN /\ pc' = [pc EXCEPT ![p] = "failText"]
                 /\ UNCHANGED payload
            ELSE /\ payload' = [payload EXCEPT ![p].content = q.data.content,
                                            ![p].title = q.data.title]
                 /\ pc' = [pc EXCEPT ![p] = "fetch"]
  /\ UNCHANGED <<notebooks, sources, body, bodyUsed, req, env, generatedData, locals,
                 response, sent>>

\* lines 75-83
FailText(p) ==
  /\ pc[p] = "failText"
  /\ FailWith(p, "Failed to get text content for processing")

\* ResolveWebsite that puts the url where the text branch puts its content
ResolveWebsiteAsContent(p) ==
  /\ pc[p] = "resolve"
  /\ req[p].sourceType = "website"
  /\ \E ok \in BOOLEAN :
       LET q == QuerySource(req[p].notebookId, "website", ok) IN
       /\ trace' = [trace EXCEPT ![p] = Append(@, QueryEvent(req[p].notebookId, "website", ok))]
       /\ IF q.error \/ Falsy(q.data.url)
            THEN /\ pc' = [pc EXCEPT ![p] = "failWebsite"]
                 /\ UNCHANGED payload
            ELSE /\ payload' = [payload EXCEPT ![p].content = q.data.url,
                                            ![p].title = q.data.title]
                 /\ pc' = [pc EXCEPT ![p] = "fetch"]
  /\ UNCHANGED <<notebooks, sources, body, bodyUsed, req, env, generatedData, locals,
                 response, sent>>

\* lines 88-114: the website branch up to its check
ResolveWebsite(p) ==
  /\ pc[p] = "resolve"
  /\ req[p].sourceType = "website"
  /\ \E ok \in BOOLEAN :
       LET q == QuerySource(req[p].notebookId, "website", ok) IN
       /\ trace' = [trace EXCEPT ![p] = Append(@, QueryEvent(req[p].notebookId, "website", ok))]
       /\ IF q.error \/ Falsy(q.data.url)
            THEN /\ pc' = [pc EXCEPT ![p] = "failWebsite"]
                 /\ UNCHANGED payload
            ELSE /\ payload' = [payload EXCEPT ![p].filePath = q.data.url,
                                            ![p].title = q.data.title]
                 /\ pc' = [pc EXCEPT ![p] = "fetch"]
  /\ UNCHANGED <<notebooks, sources, body, bodyUsed, req, env, generatedData, locals,
                 response, sent>>

\* lines 102-110
FailWebsite(p) ==
  /\ pc[p] = "failWebsite"
  /\ FailWith(p, "Failed to get website URL for processing")

\* ResolveFile without the check of filePath
ResolveFileUnchecked(p) ==
  /\ pc[p] = "resolve"
  /\ req[p].sourceType \notin {"text", "website"}
  /\ payload' = [payload EXCEPT ![p].filePath = req[p].filePath]
  /\ pc' = [pc EXCEPT ![p] = "fetch"]
  /\ UNCHANGED <<notebooks, sources, body, bodyUsed, req, env, generatedData, locals,
                 response, trace, sent>>

\* lines 115-118: a file source passes the caller's filePath through
ResolveFile(p) ==
  /\ pc[p] = "resolve"
  /\ req[p].sourceType \notin {"text", "website"}
  /\ IF ~Falsy(req[p].filePath)
       THEN /\ payload' = [payload EXCEPT ![p].filePath = req[p].filePath]
            /\ pc' = [pc EXCEPT ![p] = "fetch"]
       ELSE /\ pc' = [pc EXCEPT ![p] = "failNoSource"]
            /\ UNCHANGED payload
  /\ UNCHANGED <<notebooks, sources, body, bodyUsed, req, env, generatedData, locals,
                 response, trace, sent>>

\* FailNoSource that returns the error without the `failed` write
FailNoSourceNoWrite(p) ==
  /\ pc[p] = "failNoSource"
  /\ response' = [response EXCEPT ![p] =
                    ErrorResponse(500, "No valid source data found for generation")]
  /\ pc' = [pc EXCEPT ![p] = "done"]
  /\ UNCHANGED <<notebooks, sources, body, bodyUsed, req, env, payload, generatedData,
                 locals, trace, sent>>

\* lines 119-129
FailNoSource(p) ==
  /\ pc[p] = "failNoSource"
  /\ FailWith(p, "No valid source data found for generation")

\* lines 135-144: the POST to the generation service; it answers 2xx, answers
\* another status, or the call throws
Fetch(p) ==
  /\ pc[p] = "fetch"
  /\ sent' = [sent EXCEPT ![p] = Append(@, payload[p])]
  /\ \E outcome \in {"respOk", "notOk", "catch"} :
       /\ trace' = [trace EXCEPT ![p] = Append(@, CallEvent(outcome))]
       /\ pc' = [pc EXCEPT ![p] = outcome]
  /\ UNCHANGED <<notebooks, sources, body, bodyUsed, req, env, payload, generatedData,
                 locals, response>>

\* FailNotOk that calls the service again after a non-2xx response
FailNotOkRetry(p) ==
  /\ pc[p] = "notOk"
  /\ pc' = [pc EXCEPT ![p] = "fetch"]
  /\ UNCHANGED <<notebooks, sources, body, bodyUsed, req, env, payload,
                 generatedData, locals, response, trace, sent>>

\* lines 144-159: response.text() for the log (it may throw), then the failure
FailNotOk(p) ==
  /\ pc[p] = "notOk"
  /\ \/ FailWith(p, "Failed to generate content from web service")
     \/ /\ pc' = [pc EXCEPT ![p] = "catch"]
        /\ UNCHANGED <<notebooks, sources, body, bodyUsed, req, env, payload,
                       generatedData, locals, response, trace, sent>>

\* lines 161-207: response.json() (it may throw), shape detection, title check
ParseResponse(p) ==
  /\ pc[p] = "respOk"
  /\ \/ /\ pc' = [pc EXCEPT ![p] = "catch"]
        /\ trace' = [trace EXCEPT ![p] = Append(@, JsonEvent(FALSE))]
        /\ UNCHANGED <<generatedData, locals>>
     \/ \E g \in GenDataSet :
          LET r == Reconcile(g) IN
          /\ trace' = [trace EXCEPT ![p] = Append(@, JsonEvent(TRUE))]
          /\ generatedData' = [generatedData EXCEPT ![p] = g]
          /\ locals' = [locals EXCEPT ![p] = r.locals]
          /\ pc' = [pc EXCEPT ![p] = AfterReconcile(r)]
  /\ UNCHANGED <<notebooks, sources, body, bodyUsed, req, env, payload, response, sent>>

\* lines 184-192
FailFormat(p) ==
  /\ pc[p] = "failFormat"
  /\ FailWith(p, "Invalid response format from web service")

\* lines 198-206
FailTitle(p) ==
  /\ pc[p] = "failTitle"
  /\ FailWith(p, "No title in response from web service")

\* lines 209-243: the content write, then the persist-failure or the success
\* response
Apply(p) ==
  /\ pc[p] = "apply"
  /\ \E ok \in BOOLEAN :
       /\ notebooks' = ContentWrite(notebooks, req[p].notebookId, locals[p], ok)
       /\ trace' = [trace EXCEPT ![p] =
                      Append(@, WriteEvent(req[p].notebookId, "completed", ok))]
       /\ response' = [response EXCEPT ![p] = ApplyResponse(locals[p], ok)]
  /\ pc' = [pc EXCEPT ![p] = "done"]
  /\ UNCHANGED <<sources, body, bodyUsed, req, env, payload, generatedData, locals, sent>>

\* lines 245-269: the top-level catch reads the request body again
Catch(p) ==
  /\ pc[p] = "catch"
  /\ LET r == ReqJson(bodyUsed[p], body[p])
         write == ~r.threw /\ ~Falsy(r.value.notebookId)
     IN \E ok \in BOOLEAN :
          /\ notebooks' = IF write /\ ok
                            THEN UpdateStatus(notebooks, r.value.notebookId, "failed")
                            ELSE notebooks
          /\ trace' = IF write
                        THEN [trace EXCEPT ![p] =
                                Append(@, WriteEvent(r.value.notebookId, "failed", ok))]
                        ELSE trace
  /\ bodyUsed' = [bodyUsed EXCEPT ![p] = TRUE]
  /\ response' = [response EXCEPT ![p] = ErrorResponse(500, "Internal server error")]
  /\ pc' = [pc EXCEPT ![p] = "done"]
  /\ UNCHANGED <<sources, body, req, env, payload, generatedData, locals, sent>>

Next ==
  \E p \in Procs :
    \/ ReceiveAlone(p)
    \/ SetGenerating(p)
    \/ ResolveText(p)
    \/ FailText(p)
    \/ ResolveWebsite(p)
    \/ FailWebsite(p)
    \/ ResolveFile(p)
    \/ FailNoSource(p)
    \/ Fetch(p)
    \/ FailNotOk(p)
    \/ ParseResponse(p)
    \/ FailFormat(p)
    \/ FailTitle(p)
    \/ Apply(p)
    \/ Catch(p)

Spec == Init /\ [][Next]_vars

-----------------------------------------------------------------------------
(* Concurrent requests.  Every request runs the same actions; they interleave  *)
(* at each await.  To keep the interleavings small the requests are taken from *)
(* ConcBodies, the generation responses from ConcGenData, the sources table is *)
(* ConcSources, the configuration is present, the store applies every write    *)
(* and answers every query, and nothing throws.                                *)

ConcSources ==
  << [notebook_id |-> "n1", type |-> "text", content |-> "c1", url |-> NULL, title |-> "t1"] >>

ConcBodies ==
  { [valid |-> TRUE, notebookId |-> "n1", filePath |-> UNDEF, sourceType |-> "text"],
    [valid |-> TRUE, notebookId |-> "n1", filePath |-> "f1", sourceType |-> "pdf"],
    [valid |-> TRUE, notebookId |-> "n1", filePath |-> UNDEF, sourceType |-> "pdf"] }

ConcGenData ==
  { [hasOutput |-> TRUE,
     output |-> [title |-> "T", summary |-> "S", notebook_icon |-> "I",
                 background_color |-> "blue", example_questions |-> "[q1]"],
     top |-> NoFields],
    [hasOutput |-> FALSE, output |-> NoFields, top |-> [NoFields EXCEPT !.title = "T"]],
    [hasOutput |-> TRUE, output |-> [NoFields EXCEPT !.summary = "S"], top |-> NoFields] }

\* the request stays inside the environment described above
Calm(p) ==
  /\ pc[p] # "catch"
  /\ body[p] \in ConcBodies \cup {NoBody}
  /\ env[p] \in {NoEnv, [url |-> "https://gen", auth |-> "token"]}
  /\ generatedData[p] \in ConcGenData \cup {NoData}
  /\ \A i \in DOMAIN trace[p] : trace[p][i].op \in {"write", "query", "json"} => trace[p][i].ok

InitConc == Init /\ sources = ConcSources

NextConc ==
  \E p \in Procs :
    \/ Receive(p) /\ Calm(p)'
    \/ SetGenerating(p) /\ Calm(p)'
    \/ ResolveText(p) /\ Calm(p)'
    \/ ResolveFile(p) /\ Calm(p)'
    \/ FailNoSource(p) /\ Calm(p)'
    \/ Fetch(p) /\ Calm(p)'
    \/ FailNotOk(p) /\ Calm(p)'
    \/ ParseResponse(p) /\ Calm(p)'
    \/ FailTitle(p) /\ Calm(p)'
    \/ Apply(p) /\ Calm(p)'

SpecConc == InitConc /\ [][NextConc]_vars

-----------------------------------------------------------------------------
(* Vocabulary of the properties *)

Done(p) == pc[p] = "done"

\* the request issued a write of this status
HasWrite(p, status) ==
  \E i \in DOMAIN trace[p] : trace[p][i].op = "write" /\ trace[p][i].status = status

\* the store applied every write the request issued
AllWritesApplied(p) ==
  \A i \in DOMAIN trace[p] : trace[p][i].op = "write" => trace[p][i].ok

\* the request's body is JSON and misses notebookId or sourceType
MissingField(p) ==
  body[p].valid /\ (Falsy(body[p].notebookId) \/ Falsy(body[p].sourceType))

\* the request's body is JSON with both required fields
Accepted(p) ==
  body[p].valid /\ ~Falsy(body[p].notebookId) /\ ~Falsy(body[p].sourceType)

ConfigMissing(p) == Falsy(env[p].url) \/ Falsy(env[p].auth)

StoreUntouched == notebooks = [n \in NotebookIds |-> OldNotebook]

-----------------------------------------------------------------------------
(* C1 *)

\* C1: a request handled alone that issued the `generating` write leaves its
\* notebook `completed` or `failed`, never `generating`, when it returns; stated
\* here for the executions in which the store applies every write the handler
\* issues, which the claim covers.  The code does not satisfy it: after an
\* exception the catch block cannot read the body again and writes nothing.
C1_TerminalStatusAtReturn ==
  \A p \in Procs :
    (Done(p) /\ HasWrite(p, "generating") /\ AllWritesApplied(p))
      => notebooks[req[p].notebookId].generation_status \in {"completed", "failed"}

-----------------------------------------------------------------------------
(* C2 *)

\* C2: a request whose notebookId or sourceType is missing or empty is answered
\* 400 'notebookId and sourceType are required', and the handler makes no store
\* read or write and no external call, whatever the service configuration is.
C2_ValidationBeforeEverything ==
  \A p \in Procs :
    (pc[p] # "idle" /\ MissingField(p))
      => /\ Done(p)
         /\ response[p] = ErrorResponse(400, "notebookId and sourceType are required")
         /\ trace[p] = <<>>
         /\ sent[p] = <<>>
         /\ StoreUntouched

\* a request without notebookId was answered 400 although the configuration
\* is missing too
C2_Witness ==
  \E p \in Procs :
    /\ Done(p) /\ body[p].valid
    /\ body[p].notebookId = "" /\ body[p].sourceType = "text"
    /\ Falsy(env[p].url)
    /\ response[p].status = 400

-----------------------------------------------------------------------------
(* C3 *)

\* C3: a request with notebookId and sourceType, handled without the endpoint
\* URL or without the auth token, is answered 500 'Web service configuration
\* missing'; no store write (in particular no `generating` write), no store
\* read and no external call is made.
C3_ConfigurationBeforeStore ==
  \A p \in Procs :
    (pc[p] # "idle" /\ Accepted(p) /\ ConfigMissing(p))
      => /\ Done(p)
         /\ response[p] = ErrorResponse(500, "Web service configuration missing")
         /\ trace[p] = <<>>
         /\ sent[p] = <<>>
         /\ StoreUntouched

\* a valid request was answered 500 with the URL configured and the token not
C3_Witness ==
  \E p \in Procs :
    /\ Done(p) /\ Accepted(p)
    /\ ~Falsy(env[p].url) /\ Falsy(env[p].auth)
    /\ response[p].status = 500
    /\ response[p].error = "Web service configuration missing"

-----------------------------------------------------------------------------
(* C4 *)

\* where the handler stands when it has found one of its explicit failures
FailurePcs == {"failText", "failWebsite", "failNoSource", "notOk", "failFormat", "failTitle"}

ExplicitFailureMessages ==
  { "Failed to get text content for processing",
    "Failed to get website URL for processing",
    "No valid source data found for generation",
    "Failed to generate content from web service",
    "Invalid response format from web service",
    "No title in response from web service" }

LastEvent(p) == trace[p][Len(trace[p])]

\* the last thing the request did was to issue the `failed` write for its notebook
EndsWithFailedWrite(p) ==
  /\ trace[p] # <<>>
  /\ LastEvent(p).op = "write"
  /\ LastEvent(p).status = "failed"
  /\ LastEvent(p).id = req[p].notebookId

-----------------------------------------------------------------------------
(* C5 *)

\* the generation response was read and its title, in the shape detected, is
\* non-empty
ReconciledWithTitle(p) ==
  /\ \E i \in DOMAIN trace[p] : trace[p][i] = JsonEvent(TRUE)
  /\ \/ generatedData[p].hasOutput /\ ~Falsy(generatedData[p].output.title)
     \/ ~generatedData[p].hasOutput /\ ~Falsy(generatedData[p].top.title)

\* C5: a request writes `completed` only after the external service answered
\* 2xx with a response that reconciled to a non-empty title, and never after a
\* `failed` write (a resolver, invoker or reconciliation failure); it returns
\* the 200 response only when that content write came back without store error.
C5_CompletedOnlyAfterSuccess ==
  \A p \in Procs :
    /\ \A i \in DOMAIN trace[p] :
         (trace[p][i].op = "write" /\ trace[p][i].status = "completed")
           => /\ i = Len(trace[p])
              /\ \E j \in 1..(i - 1) : trace[p][j] = CallEvent("respOk")
              /\ ReconciledWithTitle(p)
              /\ ~HasWrite(p, "failed")
              /\ trace[p][i].id = req[p].notebookId
    /\ response[p].status = 200
         => /\ Done(p)
            /\ trace[p] # <<>>
            /\ LastEvent(p) = WriteEvent(req[p].notebookId, "completed", TRUE)
    /\ response[p].success => response[p].status = 200

\* a request returned 200 after its content write was applied
C5_Witness ==
  \E p \in Procs :
    /\ Done(p)
    /\ response[p].status = 200 /\ response[p].success
    /\ LastEvent(p) = WriteEvent("n1", "completed", TRUE)
    /\ notebooks["n1"].generation_status = "completed"
    /\ notebooks["n1"].title = "T"

-----------------------------------------------------------------------------
(* C6 *)

\* C6: when an exception is thrown after the request was accepted, the catch
\* block issues the write generation_status = `failed` for the request's
\* notebookId before it returns 500 'Internal server error', so the notebook
\* ends `failed` when the store applies the write.  The code does not satisfy
\* it: the second req.json() throws on the consumed body.
C6_CatchWritesFailed ==
  \A p \in Procs :
    (Done(p) /\ Accepted(p) /\ response[p].error = "Internal server error")
      => /\ response[p].status = 500
         /\ trace[p] # <<>>
         /\ LastEvent(p).op = "write"
         /\ LastEvent(p).status = "failed"
         /\ LastEvent(p).id = body[p].notebookId
         /\ LastEvent(p).ok => notebooks[body[p].notebookId].generation_status = "failed"

-----------------------------------------------------------------------------
(* C7 *)

\* the store rejected the request's content write
ContentWriteRejected(p) ==
  trace[p] # <<>> /\ LastEvent(p) = WriteEvent(req[p].notebookId, "completed", FALSE)

\* C7 as stated: when the store rejects the content write the handler returns
\* 500 'Failed to update notebook', issues no `failed` write, and the notebook
\* is left with generation_status = `generating`.
C7_LeftGenerating ==
  \A p \in Procs :
    (Done(p) /\ ContentWriteRejected(p))
      => /\ response[p] = ErrorResponse(500, "Failed to update notebook")
         /\ ~HasWrite(p, "failed")
         /\ notebooks[req[p].notebookId].generation_status = "generating"

\* C7, amended: when the store rejects the content write the handler returns
\* 500 'Failed to update notebook' and issues no `failed` write; the notebook
\* is left as the `generating` write left it: `generating` when the store
\* applied that write, its earlier status when the store rejected that write
\* too; its content is untouched.
C7_LeftAsGeneratingWriteLeftIt ==
  \A p \in Procs :
    (Done(p) /\ ContentWriteRejected(p))
      => /\ response[p] = ErrorResponse(500, "Failed to update notebook")
         /\ ~HasWrite(p, "failed")
         /\ trace[p][1].op = "write" /\ trace[p][1].status = "generating"
         /\ notebooks[req[p].notebookId] =
              IF trace[p][1].ok
                THEN [OldNotebook EXCEPT !.generation_status = "generating"]
                ELSE OldNotebook

\* the `generating` write was applied, the content write rejected, and the
\* notebook is still `generating` after the 500 response
C7_Witness ==
  \E p \in Procs :
    /\ Done(p) /\ ContentWriteRejected(p)
    /\ trace[p][1] = WriteEvent("n1", "generating", TRUE)
    /\ response[p].status = 500
    /\ notebooks["n1"].generation_status = "generating"

-----------------------------------------------------------------------------
(* C8 *)

\* the generation response was read and has an empty or absent title:
\* wrapped (output present) or flat (no output)
WrappedNoTitle(p) ==
  /\ \E i \in DOMAIN trace[p] : trace[p][i] = JsonEvent(TRUE)
  /\ generatedData[p].hasOutput /\ Falsy(generatedData[p].output.title)

FlatNoTitle(p) ==
  /\ \E i \in DOMAIN trace[p] : trace[p][i] = JsonEvent(TRUE)
  /\ ~generatedData[p].hasOutput /\ Falsy(generatedData[p].top.title)

ContentOf(n) ==
  [title |-> n.title, description |-> n.description, icon |-> n.icon,
   color |-> n.color, example_questions |-> n.example_questions]

\* C8 as stated: with an empty or absent title in either shape the notebook
\* ends `failed`, the 500 response says 'No title in response from web
\* service', and no content field is overwritten.
C8_NoTitleEndsFailed ==
  \A p \in Procs :
    (Done(p) /\ (WrappedNoTitle(p) \/ FlatNoTitle(p)))
      => /\ notebooks[req[p].notebookId].generation_status = "failed"
         /\ response[p] = ErrorResponse(500, "No title in response from web service")
         /\ ContentOf(notebooks[req[p].notebookId]) = ContentOf(OldNotebook)

\* C8, amended: with an empty or absent title in either shape the handler
\* issues the `failed` write as its last store operation (the notebook ends
\* `failed` whenever the store applies it), returns 500 and overwrites no
\* content field; the error is 'No title in response from web service' for the
\* wrapped shape and 'Invalid response format from web service' for the flat
\* shape.
C8_NoTitleFails ==
  \A p \in Procs :
    (Done(p) /\ (WrappedNoTitle(p) \/ FlatNoTitle(p)))
      => /\ EndsWithFailedWrite(p)
         /\ LastEvent(p).ok
              => notebooks[req[p].notebookId].generation_status = "failed"
         /\ response[p] =
              ErrorResponse(500, IF generatedData[p].hasOutput
                                   THEN "No title in response from web service"
                                   ELSE "Invalid response format from web service")
         /\ ContentOf(notebooks[req[p].notebookId]) = ContentOf(OldNotebook)

\* a wrapped response with an empty title and a summary: the notebook ended
\* `failed` with its old content
C8_Witness ==
  \E p \in Procs :
    /\ Done(p) /\ WrappedNoTitle(p)
    /\ generatedData[p].output.title = "" /\ generatedData[p].output.summary = "S"
    /\ response[p].error = "No title in response from web service"
    /\ notebooks["n1"].generation_status = "failed"
    /\ notebooks["n1"].title = "Old" /\ notebooks["n1"].description = "old d"

-----------------------------------------------------------------------------
(* C9 *)

\* a response in exactly one shape: fields under `output` and nothing at the
\* top level, or fields at the top level and no `output`
OneShape(g) ==
  \/ g.hasOutput /\ g.top = NoFields
  \/ ~g.hasOutput /\ g.output = NoFields

FieldsIn(g) == IF g.hasOutput THEN g.output ELSE g.top

\* the same fields in the other shape
OtherShape(g) ==
  IF g.hasOutput
    THEN [hasOutput |-> FALSE, output |-> NoFields, top |-> g.output]
    ELSE [hasOutput |-> TRUE, output |-> g.top, top |-> NoFields]

\* C9: for every set of field values with a non-empty title, the wrapped and
\* the flattened response lead to the same persisted notebook (title,
\* description, icon, color, example_questions, `completed`) and the same
\* response: what a request did with its response in one shape is what the
\* handler computes from the same fields in the other shape.
C9_ShapeTolerant ==
  \A p \in Procs :
    (/\ Done(p)
     /\ \E i \in DOMAIN trace[p] : trace[p][i] = JsonEvent(TRUE)
     /\ OneShape(generatedData[p])
     /\ ~Falsy(FieldsIn(generatedData[p]).title))
      => LET other == Reconcile(OtherShape(generatedData[p])) IN
         /\ other.valid
         /\ AfterReconcile(other) = "apply"
         /\ LastEvent(p).op = "write" /\ LastEvent(p).status = "completed"
         /\ LastEvent(p).ok
              => notebooks[req[p].notebookId] = PersistedFields(other.locals)
         /\ response[p] = ApplyResponse(other.locals, LastEvent(p).ok)

\* a flattened response with every field was persisted and answered with 200
C9_Witness ==
  \E p \in Procs :
    /\ Done(p)
    /\ generatedData[p] =
         [hasOutput |-> FALSE, output |-> NoFields,
          top |-> [title |-> "T", summary |-> "S", notebook_icon |-> "I",
                   background_color |-> "blue", example_questions |-> "[q1]"]]
    /\ response[p].status = 200 /\ response[p].description = "S"
    /\ notebooks["n1"] =
         [generation_status |-> "completed", title |-> "T", description |-> "S",
          icon |-> "I", color |-> "blue", example_questions |-> "[q1]"]

-----------------------------------------------------------------------------
(* C10 *)

\* row k is the most recently created row of this notebook and type
MostRecent(k, id, type) ==
  /\ k \in DOMAIN sources
  /\ sources[k].notebook_id = id /\ sources[k].type = type
  /\ \A j \in DOMAIN sources :
       (sources[j].notebook_id = id /\ sources[j].type = type) => j <= k

\* C10: for sourceType = 'text', whatever is sent to the external service is
\* exactly {sourceType: 'text', content, title} of the most recently created
\* text row of the request's notebook, whose content is non-empty; there is no
\* filePath in it even when the caller gave one; and when that row exists with
\* non-empty content and the store answers the query, the request goes on to
\* the external call.
C10_TextPayloadFromLatestRow ==
  \A p \in Procs :
    req[p].sourceType = "text"
      => /\ \A i \in DOMAIN sent[p] :
              \E k \in DOMAIN sources :
                /\ MostRecent(k, req[p].notebookId, "text")
                /\ ~Falsy(sources[k].content)
                /\ sent[p][i] = [sourceType |-> "text", content |-> sources[k].content,
                                 title |-> sources[k].title, filePath |-> UNDEF]
         /\ (pc[p] = "failText" /\ LastEvent(p).ok)
              => ~\E k \in DOMAIN sources :
                     /\ MostRecent(k, req[p].notebookId, "text")
                     /\ ~Falsy(sources[k].content)

\* two text rows of the notebook with content: the later one was sent, without
\* the filePath the caller gave
C10_Witness ==
  \E p \in Procs :
    /\ req[p].sourceType = "text" /\ req[p].notebookId = "n1" /\ req[p].filePath = "f1"
    /\ Len(sources) = 2
    /\ sources[1].content = "c1" /\ sources[2].content = "c2"
    /\ sent[p] = << [sourceType |-> "text", content |-> "c2", title |-> NULL,
                     filePath |-> UNDEF] >>

-----------------------------------------------------------------------------
(* C11 *)

\* C11: for sourceType = 'website', whatever is sent to the external service
\* is exactly {sourceType: 'website', filePath: url, title} of the most
\* recently created website row of the request's notebook, whose url is
\* non-empty; the caller's filePath is not forwarded; and when that row exists
\* with a non-empty url and the store answers the query, the request goes on
\* to the external call.
C11_WebsitePayloadFromLatestRow ==
  \A p \in Procs :
    req[p].sourceType = "website"
      => /\ \A i \in DOMAIN sent[p] :
              \E k \in DOMAIN sources :
                /\ MostRecent(k, req[p].notebookId, "website")
                /\ ~Falsy(sources[k].url)
                /\ sent[p][i] = [sourceType |-> "website", content |-> UNDEF,
                                 title |-> sources[k].title, filePath |-> sources[k].url]
         /\ (pc[p] = "failWebsite" /\ LastEvent(p).ok)
              => ~\E k \in DOMAIN sources :
                     /\ MostRecent(k, req[p].notebookId, "website")
                     /\ ~Falsy(sources[k].url)

\* the caller gave filePath 'f1'; the url of the website row was sent instead
C11_Witness ==
  \E p \in Procs :
    /\ req[p].sourceType = "website" /\ req[p].notebookId = "n1" /\ req[p].filePath = "f1"
    /\ Len(sources) = 2
    /\ sources[1].type = "website" /\ sources[1].url = ""
    /\ sources[2].type = "website" /\ sources[2].url = "u1"
    /\ sent[p] = << [sourceType |-> "website", content |-> UNDEF, title |-> "t5",
                     filePath |-> "u1"] >>

-----------------------------------------------------------------------------
(* C12 *)

\* the request got past validation and configuration with a sourceType that
\* is neither 'text' nor 'website'
FileRequest(p) ==
  /\ Accepted(p) /\ ~ConfigMissing(p)
  /\ req[p].sourceType \notin {"text", "website"}

NoQuery(p) == \A i \in DOMAIN trace[p] : trace[p][i].op # "query"

\* C12 as stated: a request with another sourceType and no filePath leaves the
\* notebook `failed`, is answered 500 and makes no external call; with a
\* filePath it forwards exactly {sourceType, filePath} without any lookup in
\* the sources table.
C12_NoFilePathEndsFailed ==
  \A p \in Procs :
    (Done(p) /\ FileRequest(p))
      => IF Falsy(req[p].filePath)
           THEN /\ notebooks[req[p].notebookId].generation_status = "failed"
                /\ response[p].status = 500
                /\ sent[p] = <<>>
           ELSE /\ sent[p] = << [NoPayload EXCEPT !.sourceType = req[p].sourceType,
                                                  !.filePath = req[p].filePath] >>
                /\ NoQuery(p)

\* C12, amended: a request with another sourceType and no filePath issues the
\* `failed` write as its last store operation (the notebook ends `failed`
\* whenever the store applies it), is answered 500 'No valid source data found
\* for generation' and makes no external call and no lookup; with a filePath
\* it forwards exactly {sourceType, filePath} without any lookup in the
\* sources table.
C12_NoFilePathFails ==
  \A p \in Procs :
    (pc[p] \notin {"idle", "setGenerating", "resolve"} /\ FileRequest(p))
      => IF Falsy(req[p].filePath)
           THEN /\ sent[p] = <<>>
                /\ NoQuery(p)
                /\ Done(p)
                     => /\ EndsWithFailedWrite(p)
                        /\ LastEvent(p).ok
                             => notebooks[req[p].notebookId].generation_status = "failed"
                        /\ response[p] =
                             ErrorResponse(500, "No valid source data found for generation")
           ELSE /\ NoQuery(p)
                /\ pc[p] # "fetch"
                     => sent[p] = << [NoPayload EXCEPT !.sourceType = req[p].sourceType,
                                                       !.filePath = req[p].filePath] >>

\* a pdf request without filePath ended `failed` with no external call
C12_Witness ==
  \E p \in Procs :
    /\ Done(p) /\ FileRequest(p)
    /\ req[p].sourceType = "pdf" /\ req[p].filePath = UNDEF /\ req[p].notebookId = "n2"
    /\ sent[p] = <<>>
    /\ response[p].status = 500
    /\ notebooks["n2"].generation_status = "failed"

-----------------------------------------------------------------------------
(* C13 *)

\* the request's content write was applied and it is the only one it issued
OneContentWriteApplied(p) ==
  /\ trace[p] # <<>>
  /\ LastEvent(p) = WriteEvent(req[p].notebookId, "completed", TRUE)
  /\ \A i \in DOMAIN trace[p] :
       (trace[p][i].op = "write" /\ trace[p][i].status = "completed") => i = Len(trace[p])

\* C13: on success the single content write sets, with generation_status =
\* `completed`: title = the response title; description = the summary, or null
\* when absent or empty; icon = notebook_icon, or the placeholder glyph when
\* absent; color = background_color, or 'gray' when absent; example_questions
\* = the list, or the empty list when absent; and the response is the 200
\* success response.
C13_ContentWithDefaults ==
  \A p \in Procs :
    (Done(p) /\ OneContentWriteApplied(p))
      => LET f == FieldsIn(generatedData[p])
             n == notebooks[req[p].notebookId]
         IN /\ n.generation_status = "completed"
            /\ n.title = f.title /\ ~Falsy(f.title)
            /\ n.description = (IF f.summary \in {UNDEF, NULL, ""} THEN NULL ELSE f.summary)
            /\ n.icon = (IF f.notebook_icon = UNDEF THEN DefaultIcon ELSE f.notebook_icon)
            /\ n.color = (IF f.background_color = UNDEF THEN "gray" ELSE f.background_color)
            /\ n.example_questions =
                 (IF f.example_questions = UNDEF THEN "[]" ELSE f.example_questions)
            /\ response[p].status = 200 /\ response[p].success

\* request {n1, text}, response {output: {title, summary, example_questions}}:
\* completed with title, summary, default icon, default color and the
\* questions, answered 200
C13_Witness ==
  \E p \in Procs :
    /\ Done(p)
    /\ req[p].notebookId = "n1" /\ req[p].sourceType = "text"
    /\ generatedData[p] =
         [hasOutput |-> TRUE,
          output |-> [title |-> "T", summary |-> "S", notebook_icon |-> UNDEF,
                      background_color |-> UNDEF, example_questions |-> "[q1]"],
          top |-> NoFields]
    /\ notebooks["n1"] =
         [generation_status |-> "completed", title |-> "T", description |-> "S",
          icon |-> DefaultIcon, color |-> "gray", example_questions |-> "[q1]"]
    /\ response[p].status = 200 /\ response[p].success

-----------------------------------------------------------------------------
(* C14 *)

\* the content bundle the handler builds from the request's generation response
Bundle(p) ==
  LET f == FieldsIn(generatedData[p])
  IN [title |-> f.title,
      description |-> (IF f.summary \in {UNDEF, NULL, ""} THEN NULL ELSE f.summary),
      icon |-> (IF f.notebook_icon = UNDEF THEN DefaultIcon ELSE f.notebook_icon),
      color |-> (IF f.background_color = UNDEF THEN "gray" ELSE f.background_color),
      example_questions |->
        (IF f.example_questions = UNDEF THEN "[]" ELSE f.example_questions)]

\* this step is the request's `completed` write, applied by the store
AppliesContent(p) ==
  /\ pc[p] = "apply"
  /\ trace'[p] = Append(trace[p], WriteEvent(req[p].notebookId, "completed", TRUE))

\* C14: among concurrent requests the content write is unconditional and the
\* last one wins: every `completed` write the store applies leaves the
\* notebook's content fields equal to that request's bundle, whatever status
\* and content were stored before, and no other step changes a content field;
\* so the content is always the bundle of the `completed` write applied last.
C14_LastContentWriteWins ==
  [][ /\ \A p \in Procs :
           AppliesContent(p)
             => /\ ContentOf(notebooks'[req[p].notebookId]) = Bundle(p)
                /\ notebooks'[req[p].notebookId].generation_status = "completed"
      /\ \A n \in NotebookIds :
           ContentOf(notebooks'[n]) # ContentOf(notebooks[n])
             => \E p \in Procs : AppliesContent(p) /\ req[p].notebookId = n
    ]_vars

\* both requests for n1 succeeded with different bundles
BothSucceeded ==
  /\ \A p \in {1, 2} :
       /\ Done(p) /\ req[p].notebookId = "n1"
       /\ OneContentWriteApplied(p) /\ response[p].status = 200
  /\ Bundle(1).description = "S" /\ Bundle(2).description = NULL

\* two successful requests for n1 with different bundles: the notebook holds
\* the bundle of request 1, over what request 2 wrote
C14_Witness == BothSucceeded /\ ContentOf(notebooks["n1"]) = Bundle(1)

\* the other order: the notebook holds the bundle of request 2
C14_OtherOrder == BothSucceeded /\ ContentOf(notebooks["n1"]) = Bundle(2)

\* the two content writes raced: request 1 is about to write its content over
\* the content request 2 wrote after request 1 had marked the notebook
\* `generating`
C14_Overtaken ==
  /\ pc[1] = "apply" /\ req[1].notebookId = "n1"
  /\ Done(2) /\ req[2].notebookId = "n1" /\ OneContentWriteApplied(2)
  /\ notebooks["n1"].generation_status = "completed"
  /\ ContentOf(notebooks["n1"]) = Bundle(2) /\ Bundle(2) # Bundle(1)

-----------------------------------------------------------------------------
(* C15 *)

IsGeneratingWrite(e) == e.op = "write" /\ e.status = "generating"

\* C15: a request that passed validation and the configuration check has, once
\* it is past that point, issued the `generating` write for its notebook as
\* the first thing it did at the store or the service, so before any query of
\* the sources table, before the external call and before any `completed` or
\* `failed` write; and no request issues a second `generating` write.
C15_GeneratingWriteOnceAndFirst ==
  \A p \in Procs :
    /\ (Accepted(p) /\ ~ConfigMissing(p) /\ pc[p] \notin {"idle", "setGenerating"})
         => /\ trace[p] # <<>>
            /\ IsGeneratingWrite(trace[p][1])
            /\ trace[p][1].id = req[p].notebookId
    /\ \A i \in DOMAIN trace[p] : IsGeneratingWrite(trace[p][i]) => i = 1

\* a returned request whose operations were: the `generating` write, a query
\* of the sources table, the external call, response.json(), the `completed`
\* write
C15_Witness ==
  \E p \in Procs :
    /\ Done(p) /\ Len(trace[p]) = 5
    /\ IsGeneratingWrite(trace[p][1])
    /\ trace[p][2].op = "query" /\ trace[p][3].op = "call"
    /\ trace[p][5].op = "write" /\ trace[p][5].status = "completed"

-----------------------------------------------------------------------------
(* C16 *)

\* the values the handler reads out of one level of the response
ReadFrom(f) ==
  [title |-> f.title, description |-> f.summary, notebookIcon |-> f.notebook_icon,
   backgroundColor |-> f.background_color,
   exampleQuestions |-> (IF f.example_questions = UNDEF THEN "[]" ELSE f.example_questions)]

\* the request is failing, or has failed, with this message
FailsWith(p, label, msg) ==
  \/ pc[p] = label
  \/ Done(p) /\ response[p].status = 500 /\ response[p].error = msg

\* C16: shape detection looks at `output` first. Once the response is parsed:
\* with a truthy `output` every field is read from `output` and the top level
\* is ignored, so an `output` without a title is the missing-title failure
\* even when the top level has a title; without `output` and with a truthy
\* top-level title the fields are read from the top level; in every other
\* case the request fails with 'Invalid response format from web service'.
C16_OutputFirst ==
  \A p \in Procs :
    LET g == generatedData[p] IN
    (g # NoData /\ pc[p] # "catch")
      => /\ g.hasOutput
              => /\ locals[p] = ReadFrom(g.output)
                 /\ Falsy(g.output.title)
                      => FailsWith(p, "failTitle", "No title in response from web service")
         /\ (~g.hasOutput /\ ~Falsy(g.top.title))
              => /\ locals[p] = ReadFrom(g.top)
                 /\ ~FailsWith(p, "failFormat", "Invalid response format from web service")
                 /\ ~FailsWith(p, "failTitle", "No title in response from web service")
         /\ (~g.hasOutput /\ Falsy(g.top.title))
              => FailsWith(p, "failFormat", "Invalid response format from web service")

\* the response {output: {}, title: 'T2', summary: 'S2'} ended as the
\* missing-title failure
C16_Witness ==
  \E p \in Procs :
    /\ Done(p)
    /\ generatedData[p] = [hasOutput |-> TRUE, output |-> NoFields, top |-> TopOnly]
    /\ response[p].status = 500
    /\ response[p].error = "No title in response from web service"
    /\ ContentOf(notebooks[req[p].notebookId]) = ContentOf(OldNotebook)

-----------------------------------------------------------------------------
(* C17 *)

IsCall(e) == e.op = "call"

IsQuery(e) == e.op = "query"

\* an operation that failed: a `failed` write, a call the service did not
\* answer with 2xx, a response.json() that threw, a rejected query or a
\* rejected `completed` write
IsFailure(e) ==
  \/ e.op = "write" /\ e.status = "failed"
  \/ e.op = "write" /\ e.status = "completed" /\ ~e.ok
  \/ e.op \in {"call", "json", "query"} /\ ~e.ok

\* C17: a request calls the generation service at most once, with one payload,
\* and never retries: the call comes after the source lookup, if any, and only
\* when that lookup neither failed nor ended in a `failed` write; after a
\* resolver failure, a non-2xx response, a reconciliation failure or a persist
\* failure the request makes no further call and no further query.
C17_OneCallNoRetry ==
  \A p \in Procs :
    /\ Len(sent[p]) <= 1
    /\ \A i, j \in DOMAIN trace[p] :
         /\ (IsCall(trace[p][i]) /\ IsCall(trace[p][j])) => i = j
         /\ (IsCall(trace[p][i]) /\ j < i) => ~IsFailure(trace[p][j])
         /\ (IsFailure(trace[p][i]) /\ i < j)
              => ~IsCall(trace[p][j]) /\ ~IsQuery(trace[p][j])
    /\ (\E i \in DOMAIN trace[p] : IsCall(trace[p][i])) <=> Len(sent[p]) = 1

\* a returned request whose single call was answered with a non-2xx status:
\* `generating` write, query, call, `failed` write, and nothing else
C17_Witness ==
  \E p \in Procs :
    /\ Done(p) /\ Len(sent[p]) = 1 /\ Len(trace[p]) = 4
    /\ IsQuery(trace[p][2])
    /\ trace[p][3] = CallEvent("notOk")
    /\ trace[p][4].op = "write" /\ trace[p][4].status = "failed"
    /\ response[p] = ErrorResponse(500, "Failed to generate content from web service")

-----------------------------------------------------------------------------
(* C18 *)

\* this step is a write of request p: the event it adds to the request's history
WriteStep(p) ==
  /\ Len(trace'[p]) = Len(trace[p]) + 1
  /\ trace'[p][Len(trace'[p])].op = "write"

WrittenBy(p) == trace'[p][Len(trace'[p])]

\* C18: a status-only write (`generating` or `failed`, from any branch of the
\* handler) changes nothing but generation_status of the notebook with the
\* request's notebookId: title, description, icon, color and
\* example_questions of every notebook stay as they were; and a notebook
\* changes only in a write step of a request made for that notebook.
C18_StatusWritesTouchOnlyStatus ==
  [][ /\ \A p \in Procs :
           (WriteStep(p) /\ WrittenBy(p).status \in {"generating", "failed"})
             => /\ WrittenBy(p).id = req[p].notebookId
                /\ \A n \in NotebookIds :
                     /\ ContentOf(notebooks'[n]) = ContentOf(notebooks[n])
                     /\ n # req[p].notebookId => notebooks'[n] = notebooks[n]
                /\ notebooks'[req[p].notebookId].generation_status =
                     (IF WrittenBy(p).ok THEN WrittenBy(p).status
                      ELSE notebooks[req[p].notebookId].generation_status)
      /\ \A n \in NotebookIds :
           notebooks'[n] # notebooks[n]
             => \E p \in Procs : WriteStep(p) /\ req[p].notebookId = n /\ WrittenBy(p).id = n
    ]_vars

\* a request for n1 whose `generating` and `failed` writes were both applied:
\* n1 is `failed` with the content it had, n2 is as it was
C18_Witness ==
  \E p \in Procs :
    /\ Done(p) /\ trace[p] # <<>> /\ req[p].notebookId = "n1"
    /\ trace[p][1] = WriteEvent("n1", "generating", TRUE)
    /\ LastEvent(p) = WriteEvent("n1", "failed", TRUE)
    /\ notebooks["n1"] = [OldNotebook EXCEPT !.generation_status = "failed"]
    /\ notebooks["n2"] = OldNotebook

-----------------------------------------------------------------------------
(* C19 *)

AllReturned == \A p \in Procs : pc[p] \in {"idle", "done"}

\* some request for this notebook was handled
Requested(n) == \E p \in Procs : Done(p) /\ trace[p] # <<>> /\ req[p].notebookId = n

\* C19: concurrent requests for the same notebook, interleaved at every store
\* write, none of whose writes is rejected and none of which throws: once
\* every handler has returned, the generation_status of a notebook some
\* request was made for is `completed` or `failed`.
C19_TerminalAfterAllReturned ==
  (AllReturned /\ \A p \in Procs : AllWritesApplied(p))
    => \A n \in NotebookIds :
         Requested(n) => notebooks[n].generation_status \in {"completed", "failed"}

\* the final status need not match every response: one request for n1 was
\* answered 200, another 500, and n1 ends `failed` with the content of the
\* successful request
C19_Witness ==
  \E p, q \in Procs :
    /\ p # q /\ AllReturned
    /\ Done(p) /\ Done(q) /\ req[p].notebookId = "n1" /\ req[q].notebookId = "n1"
    /\ response[p].status = 200 /\ response[p].success
    /\ OneContentWriteApplied(p)
    /\ response[q].status = 500
    /\ notebooks["n1"].generation_status = "failed"
    /\ ContentOf(notebooks["n1"]) = Bundle(p)

-----------------------------------------------------------------------------
(* C20 *)

\* C20: on the success path the content fields of the 200 response (title,
\* description, icon, color, exampleQuestions) equal the values the same
\* request persisted on the notebook (title, description, icon, color,
\* example_questions), for every generation response, including those where
\* notebook_icon, background_color or summary are absent.
C20_ResponseEqualsPersisted ==
  \A p \in Procs :
    (Done(p) /\ OneContentWriteApplied(p) /\ response[p].status = 200)
      => LET n == notebooks[req[p].notebookId] IN
         /\ response[p].title = n.title
         /\ response[p].description = n.description
         /\ response[p].icon = n.icon
         /\ response[p].color = n.color
         /\ response[p].exampleQuestions = n.example_questions

====
